---- MODULE Spec2Model ----
(***************************************************************************)
(* Model of the RGB wallet Runtime (src/runtime.rs): the composition of a  *)
(* contract-state store ("stock"), a UTXO wallet and a network, its load   *)
(* variants, its operations and its flush on disposal.                     *)
(*                                                                         *)
(* The filesystem is part of the state: the stock files, the directories   *)
(* and the wallet files.  Collaborators outside runtime.rs (the stock's    *)
(* import/accept routines, the consignment validator, the wallet loader)   *)
(* are modelled by their interface; their outcome is an input of the       *)
(* action that calls them.                                                 *)
(***************************************************************************)
EXTENDS Integers, Sequences, FiniteSets

VARIABLES
    rts,      \* live Runtime values: slot -> Runtime record (DOMAIN = live slots)
    disk,     \* stock files: path -> file (DOMAIN = the files that exist)
    dirs,     \* the directories that exist
    wfiles,   \* wallet storage: path -> wallet (DOMAIN = the stored wallets)
    ret,      \* what the last call returned (or that it panicked)
    trip      \* observer of load_or_init; drop; load sequences

vars == <<rts, disk, dirs, wfiles, ret, trip>>

---------------------------------------------------------------------------
(* Bounds and input domains *)

\* number of distinct contracts offered for import
MaxContracts == 1

\* number of distinct outpoints a caller asks the ownership filter about
MaxOutpoints == 3

\* The Runtime values alive at once.  The store and the wallet are owned by
\* one Runtime at a time (no lock guards stock_path, see Drop).
Slots == {"rt1"}

BaseDirs == {<<"x">>}

WalletNames == {"w1"}

\* bpstd::Network values used as inputs
Networks == {"Mainnet", "Testnet3"}

Contracts == {[kind |-> "contract", id |-> i] : i \in 1..MaxContracts}

\* a transfer: its id, whether it is sound, and the kind of chain it is for
Transfers ==
    { [id |-> 1, sound |-> TRUE,  testnet |-> TRUE],
      [id |-> 2, sound |-> FALSE, testnet |-> TRUE] }

NoTransfer == [id |-> 0, sound |-> FALSE, testnet |-> FALSE]

TransferItem(t) == [kind |-> "transfer", id |-> t.id]

\* the transfers offered to accept_transfer
Acceptable == {t \in Transfers : t.sound}

Items == Contracts \cup {TransferItem(t) : t \in Acceptable}

\* the values of the contract-state store
Stocks == SUBSET Items

Outpoints == 1..MaxOutpoints

\* XchainOutpoint: a chain tag and an outpoint
XchainOutpoints ==
    [chain : {"Bitcoin"}, outpoint : Outpoints] \cup [chain : {"Liquid"}, outpoint : {1}]

NoOutpoint == [chain |-> "", outpoint |-> 0]

\* wallets, as the enumeration wallet.coins() yields
WalletEmpty == << >>
WalletA == << [outpoint |-> 1, value |-> 10] >>
WalletB == << [outpoint |-> 2, value |-> 20], [outpoint |-> 1, value |-> 5] >>
Wallets == {WalletEmpty, WalletA, WalletB}

---------------------------------------------------------------------------
(* Pure helpers *)

\* Display of bpstd::Network, as used by network.to_string()
NetworkToString(network) ==
    CASE network = "Mainnet"  -> "bitcoin"
      [] network = "Testnet3" -> "testnet"
      [] network = "Signet"   -> "signet"
      [] network = "Regtest"  -> "regtest"

\* Network::is_testnet
IsTestnet(network) == network # "Mainnet"

\* AddressNetwork::from(Network)
AddressNetworkOf(network) ==
    CASE network = "Mainnet"  -> "Mainnet"
      [] network = "Testnet3" -> "Testnet"
      [] network = "Signet"   -> "Testnet"
      [] network = "Regtest"  -> "Regtest"

\* PathBuf::push of a relative component
PathPush(path, component) == Append(path, component)

\* the network directory of load_attach_or_init: data_dir.push(network.to_string())
NetworkDir(data_dir, network) == PathPush(data_dir, NetworkToString(network))

\* variant of StockPath: the network directory is left out of the path
StockPathFlat(data_dir, network) == PathPush(data_dir, "stock.dat")

\* stock_path of load_attach_or_init
StockPath(data_dir, network) == PathPush(NetworkDir(data_dir, network), "stock.dat")

\* wallet_path of load
LoadWalletPath(data_dir, network, wallet_name) == PathPush(data_dir, wallet_name)

\* wallet_path of load_or_init
LoadOrInitWalletPath(data_dir, network, wallet_name) ==
    PathPush(PathPush(data_dir, NetworkToString(network)), wallet_name)

\* the file Stock::store writes for a store value
StockFile(stock) == [ok |-> TRUE, stock |-> stock]

\* a file Stock::load cannot decode
CorruptFile == [ok |-> FALSE, stock |-> {}]

\* Stock::load(path): the store, or a DeserializeError when the file is
\* absent or cannot be decoded
StockLoad(files, path) ==
    IF path \in DOMAIN files /\ files[path].ok
    THEN [ok |-> TRUE, stock |-> files[path].stock]
    ELSE [ok |-> FALSE, stock |-> {}]

\* default!() of Stock
DefaultStock == {}

\* f with x mapped to v (x need not be in DOMAIN f)
Put(f, x, v) == [y \in DOMAIN f \cup {x} |-> IF y = x THEN v ELSE f[y]]

\* the function with no argument
EmptyFn == [y \in {} |-> y]

\* f without x
Remove(f, x) == [y \in DOMAIN f \ {x} |-> f[y]]

\* the directories fs::create_dir_all(dir) makes sure exist
DirsOf(dir) == {SubSeq(dir, 1, n) : n \in 1..Len(dir)}

\* XchainOutpoint::Bitcoin(outpoint)
XchainBitcoin(outpoint) == [chain |-> "Bitcoin", outpoint |-> outpoint]

\* wallet.coins().any(|utxo| XchainOutpoint::Bitcoin(utxo.outpoint) == output)
RECURSIVE AnyCoin(_, _)
AnyCoin(coins, output) ==
    IF coins = << >> THEN FALSE
    ELSE \/ XchainBitcoin(Head(coins).outpoint) = output
         \/ AnyCoin(Tail(coins), output)

\* bpwallet::Runtime::load_standard(path): the stored wallet, or a LoadError
LoadStandard(files, path) ==
    IF path \in DOMAIN files
    THEN [ok |-> TRUE, wallet |-> files[path]]
    ELSE [ok |-> FALSE, wallet |-> WalletEmpty]

\* transfer.validate(resolver, testnet): the consignment validator.  A
\* transfer is valid when it is sound, is for the kind of chain the runtime
\* is on and its transactions resolve; otherwise the failure carries a status.
TransferValidate(t, resolves, testnet) ==
    IF ~t.sound THEN [ok |-> FALSE, some |-> TRUE, status |-> "Invalid"]
    ELSE IF t.testnet # testnet THEN [ok |-> FALSE, some |-> TRUE, status |-> "NetworkMismatch"]
    ELSE IF ~resolves THEN [ok |-> FALSE, some |-> TRUE, status |-> "UnresolvedTransactions"]
    ELSE [ok |-> TRUE, some |-> TRUE, status |-> "Valid"]

---------------------------------------------------------------------------
(* Results of calls *)

\* no fallback outcome
NoInit == [ok |-> FALSE, stock |-> {}, err |-> ""]

NoRet ==
    [op |-> "none", slot |-> "", kind |-> "None", err |-> "", status |-> "",
     given |-> NoTransfer, xfer |-> NoTransfer, out |-> NoOutpoint,
     flag |-> FALSE, label |-> "", wallet |-> WalletEmpty, lost |-> {},
     init |-> NoInit,
     data_dir |-> << >>, network |-> "", wallet_name |-> ""]

Ret(op, slot, kind) == [NoRet EXCEPT !.op = op, !.slot = slot, !.kind = kind]

\* a call that returned Err(RuntimeError::<err>)
Err(call, err) == [call EXCEPT !.kind = "Err", !.err = err]

\* the arguments of a load variant
LoadCall(op, slot, data_dir, network, wallet_name) ==
    [Ret(op, slot, "Ok") EXCEPT
        !.data_dir = data_dir, !.network = network, !.wallet_name = wallet_name]

NoTrip == [phase |-> 0, data_dir |-> << >>, network |-> "", wallet_name |-> "", stock |-> {}]

\* what the caller-supplied store fallback may return
InitStockOutcomes ==
    { [ok |-> TRUE,  stock |-> {},  err |-> ""],
      [ok |-> TRUE,  stock |-> Contracts, err |-> ""],
      [ok |-> FALSE, stock |-> {},  err |-> "Deserialize"],
      [ok |-> FALSE, stock |-> {},  err |-> "Custom"] }

\* variant of DefaultInit: the fallback hands the error back, |err| Err(err)
PropagatingInit == [ok |-> FALSE, stock |-> {}, err |-> "Deserialize"]

\* the fallback load and load_attach pass: |_| Ok(default!())
DefaultInit == [ok |-> TRUE, stock |-> DefaultStock, err |-> ""]

---------------------------------------------------------------------------
(* Initial states: a filesystem that may already hold stock files (decodable
   or not) and wallets; no Runtime is alive. *)

InitStockFiles == {CorruptFile, StockFile({}), StockFile(Contracts)}

InitStockPaths == {<<"x", "bitcoin", "stock.dat">>, <<"x", "testnet", "stock.dat">>}

InitWalletFiles ==
    { EmptyFn,
      [p \in {<<"x", "w1">>} |-> WalletA],
      [p \in {<<"x", "testnet", "w1">>} |-> WalletA] }

Init ==
    /\ rts = EmptyFn
    /\ \E present \in SUBSET InitStockPaths : disk \in [present -> InitStockFiles]
    /\ wfiles \in InitWalletFiles
    /\ dirs = UNION {DirsOf(SubSeq(p, 1, Len(p) - 1)) : p \in DOMAIN disk \cup DOMAIN wfiles}
    /\ ret = NoRet
    /\ trip = NoTrip

---------------------------------------------------------------------------
(* Persistence lifecycle *)

\* the Runtime value load_attach_or_init builds (data_dir, mutated and
\* fallback are observers: the base directory it was loaded from, whether an
\* import or accept succeeded since, whether the store came from the fallback)
NewRuntime(stock_path, stock, wallet, network, data_dir, fallback) ==
    [stock_path |-> stock_path, stock |-> stock, wallet |-> wallet,
     network |-> network, data_dir |-> data_dir,
     mutated |-> FALSE, fallback |-> fallback]

\* variant of LoadAttachOrInitBody: an error of the fallback is swallowed and
\* the default store is used (unwrap_or_default)
LoadBodyDefaultOnError(call, data_dir, network, wallet, init, mkdir_ok) ==
    LET dir == NetworkDir(data_dir, network)
        stock_path == StockPath(data_dir, network)
        loaded == StockLoad(disk, stock_path)
    IN  /\ UNCHANGED disk
        /\ IF dir \notin dirs /\ ~mkdir_ok
           THEN /\ ret' = Err(call, "Io")
                /\ UNCHANGED <<rts, dirs>>
           ELSE /\ dirs' = dirs \cup DirsOf(dir)
                /\ rts' = Put(rts, call.slot,
                              NewRuntime(stock_path,
                                         IF loaded.ok THEN loaded.stock
                                         ELSE IF init.ok THEN init.stock ELSE DefaultStock,
                                         wallet, network, data_dir, ~loaded.ok))
                /\ ret' = IF loaded.ok THEN call
                          ELSE [call EXCEPT !.flag = TRUE, !.init = init]

\* variant of LoadAttachOrInitBody: the Runtime is built around a default
\* store before the fallback runs, and dropped (flushed) when it fails
LoadBodyFlushOnError(call, data_dir, network, wallet, init, mkdir_ok) ==
    LET dir == NetworkDir(data_dir, network)
        stock_path == StockPath(data_dir, network)
        loaded == StockLoad(disk, stock_path)
    IN  IF dir \notin dirs /\ ~mkdir_ok
        THEN /\ ret' = Err(call, "Io")
             /\ UNCHANGED <<rts, dirs, disk>>
        ELSE /\ dirs' = dirs \cup DirsOf(dir)
             /\ IF loaded.ok \/ init.ok
                THEN /\ rts' = Put(rts, call.slot,
                                   NewRuntime(stock_path,
                                              IF loaded.ok THEN loaded.stock ELSE init.stock,
                                              wallet, network, data_dir, ~loaded.ok))
                     /\ ret' = IF loaded.ok THEN call
                               ELSE [call EXCEPT !.flag = TRUE, !.init = init]
                     /\ UNCHANGED disk
                ELSE /\ ret' = Err([call EXCEPT !.flag = TRUE, !.init = init], init.err)
                     /\ disk' = Put(disk, stock_path, StockFile(DefaultStock))
                     /\ UNCHANGED rts

\* load_attach_or_init: create the network directory, load the store or
\* fall back to init, build the Runtime.  mkdir_ok: whether create_dir_all
\* succeeds when it has a directory to create.
LoadAttachOrInitBody(call, data_dir, network, wallet, init, mkdir_ok) ==
    LET dir == NetworkDir(data_dir, network)
        stock_path == StockPath(data_dir, network)
        loaded == StockLoad(disk, stock_path)
    IN  /\ UNCHANGED disk
        /\ IF dir \notin dirs /\ ~mkdir_ok
           THEN /\ ret' = Err(call, "Io")
                /\ UNCHANGED <<rts, dirs>>
           ELSE /\ dirs' = dirs \cup DirsOf(dir)
                /\ IF loaded.ok
                   THEN /\ rts' = Put(rts, call.slot,
                                      NewRuntime(stock_path, loaded.stock, wallet,
                                                 network, data_dir, FALSE))
                        /\ ret' = call
                   ELSE IF init.ok
                   THEN /\ rts' = Put(rts, call.slot,
                                      NewRuntime(stock_path, init.stock, wallet,
                                                 network, data_dir, TRUE))
                        /\ ret' = [call EXCEPT !.flag = TRUE, !.init = init]
                   ELSE /\ ret' = Err([call EXCEPT !.flag = TRUE, !.init = init], init.err)
                        /\ UNCHANGED rts

\* Runtime::load
Load(slot, data_dir, wallet_name, network, mkdir_ok) ==
    LET call == LoadCall("load", slot, data_dir, network, wallet_name)
        bprt == LoadStandard(wfiles, LoadWalletPath(data_dir, network, wallet_name))
    IN  /\ slot \notin DOMAIN rts
        /\ UNCHANGED wfiles
        /\ trip' = IF /\ trip.phase = 2
                      /\ trip.data_dir = data_dir
                      /\ trip.network = network
                      /\ trip.wallet_name = wallet_name
                   THEN [trip EXCEPT !.phase = 3]
                   ELSE NoTrip
        /\ IF ~bprt.ok
           THEN /\ ret' = Err(call, "Bp")
                /\ UNCHANGED <<rts, disk, dirs>>
           ELSE LoadAttachOrInitBody(call, data_dir, network, bprt.wallet,
                                     DefaultInit, mkdir_ok)

\* Runtime::load_attach
LoadAttach(slot, data_dir, network, wallet, mkdir_ok) ==
    /\ slot \notin DOMAIN rts
    /\ UNCHANGED wfiles
    /\ trip' = NoTrip
    /\ LoadAttachOrInitBody(LoadCall("load_attach", slot, data_dir, network, ""),
                            data_dir, network, wallet, DefaultInit, mkdir_ok)

\* Runtime::load_or_init.  init_wallet_ok: whether the wallet fallback
\* returns a descriptor; persisted: whether the wallet subsystem has written
\* the fresh wallet to wallet_path by the time the call returns.
LoadOrInit(slot, data_dir, wallet_name, network, init_wallet_ok, persisted, init_stock, mkdir_ok) ==
    LET call == LoadCall("load_or_init", slot, data_dir, network, wallet_name)
        wallet_path == LoadOrInitWalletPath(data_dir, network, wallet_name)
        bprt == LoadStandard(wfiles, wallet_path)
    IN  /\ slot \notin DOMAIN rts
        /\ IF ~bprt.ok /\ ~init_wallet_ok
           THEN /\ ret' = Err(call, "Bp")
                /\ trip' = NoTrip
                /\ UNCHANGED <<rts, disk, dirs, wfiles>>
           ELSE /\ wfiles' = IF ~bprt.ok /\ persisted
                             THEN Put(wfiles, wallet_path, WalletEmpty)
                             ELSE wfiles
                /\ LoadAttachOrInitBody(call, data_dir, network,
                                        IF bprt.ok THEN bprt.wallet ELSE WalletEmpty,
                                        init_stock, mkdir_ok)
                /\ trip' = IF ret'.kind = "Ok"
                           THEN [phase |-> 1, data_dir |-> data_dir, network |-> network,
                                 wallet_name |-> wallet_name, stock |-> {}]
                           ELSE NoTrip

\* Runtime::load_attach_or_init
LoadAttachOrInit(slot, data_dir, network, wallet, init_stock, mkdir_ok) ==
    /\ slot \notin DOMAIN rts
    /\ UNCHANGED wfiles
    /\ trip' = NoTrip
    /\ LoadAttachOrInitBody(LoadCall("load_attach_or_init", slot, data_dir, network, ""),
                            data_dir, network, wallet, init_stock, mkdir_ok)

\* variant of Store: the file is written from a fresh store, not from rt.stock
StoreEmpty(rt, store_ok, damaged) ==
    IF store_ok
    THEN [panic |-> FALSE, disk |-> Put(disk, rt.stock_path, StockFile(DefaultStock))]
    ELSE [panic |-> TRUE,
          disk |-> IF damaged THEN Put(disk, rt.stock_path, CorruptFile) ELSE disk]

\* variant of Store: a failed write is ignored (.ok() instead of .expect)
StoreIgnoreError(rt, store_ok, damaged) ==
    [panic |-> FALSE,
     disk |-> IF store_ok THEN Put(disk, rt.stock_path, StockFile(rt.stock))
              ELSE IF damaged THEN Put(disk, rt.stock_path, CorruptFile) ELSE disk]

\* variant of Store: the file is read back and merged with the store
StoreMerge(rt, store_ok, damaged) ==
    IF store_ok
    THEN [panic |-> FALSE,
          disk |-> Put(disk, rt.stock_path,
                       StockFile(rt.stock \cup StockLoad(disk, rt.stock_path).stock))]
    ELSE [panic |-> TRUE,
          disk |-> IF damaged THEN Put(disk, rt.stock_path, CorruptFile) ELSE disk]

\* Runtime::store: write the store to stock_path; .expect panics when the
\* write fails.  A failed write leaves the old file or an undecodable one.
Store(rt, store_ok, damaged) ==
    IF store_ok
    THEN [panic |-> FALSE, disk |-> Put(disk, rt.stock_path, StockFile(rt.stock))]
    ELSE [panic |-> TRUE,
          disk |-> IF damaged THEN Put(disk, rt.stock_path, CorruptFile) ELSE disk]

\* observer: the items of the file at stock_path that rt does not hold, which
\* a write of rt.stock over the file removes from it
Overwritten(rt) == StockLoad(disk, rt.stock_path).stock \ rt.stock

\* observer: what kind of Runtime value is being disposed of
Disposed(rt) ==
    IF rt.mutated THEN "dirty" ELSE IF rt.fallback THEN "fresh" ELSE "clean"

\* variant of DropRuntime: the value goes away without self.store()
DropRuntimeNoStore(call, store_ok, damaged) ==
    /\ rts' = Remove(rts, call.slot)
    /\ ret' = [call EXCEPT !.label = Disposed(rts[call.slot])]
    /\ UNCHANGED <<disk, dirs, wfiles>>

\* Drop for Runtime: the value goes away after self.store()
DropRuntime(call, store_ok, damaged) ==
    LET rt == rts[call.slot]
        stored == Store(rt, store_ok, damaged)
        done == [call EXCEPT !.label = Disposed(rt),
                             !.lost = IF stored.panic THEN {} ELSE Overwritten(rt)]
    IN  /\ disk' = stored.disk
        /\ rts' = Remove(rts, call.slot)
        /\ ret' = IF stored.panic THEN [done EXCEPT !.kind = "Panic"] ELSE done
        /\ UNCHANGED <<dirs, wfiles>>

\* a Runtime going out of scope
Drop(slot, store_ok, damaged) ==
    /\ slot \in DOMAIN rts
    /\ (store_ok => ~damaged)
    /\ trip' = IF trip.phase = 1 /\ store_ok
               THEN [trip EXCEPT !.phase = 2, !.stock = rts[slot].stock]
               ELSE NoTrip
    /\ DropRuntime(Ret("drop", slot, "Ok"), store_ok, damaged)

\* variant of Unload: the value is forgotten, its Drop never runs
UnloadForget(slot, store_ok, damaged) ==
    /\ slot \in DOMAIN rts
    /\ (store_ok => ~damaged)
    /\ store_ok
    /\ trip' = NoTrip
    /\ rts' = Remove(rts, slot)
    /\ ret' = [Ret("unload", slot, "Ok") EXCEPT !.label = Disposed(rts[slot])]
    /\ UNCHANGED <<disk, dirs, wfiles>>

\* Runtime::unload(self) {}: the body is empty and self, taken by value, is
\* dropped when it returns
Unload(slot, store_ok, damaged) ==
    /\ slot \in DOMAIN rts
    /\ (store_ok => ~damaged)
    /\ trip' = NoTrip
    /\ DropRuntime(Ret("unload", slot, "Ok"), store_ok, damaged)

---------------------------------------------------------------------------
(* Runtime operations *)

\* variant of Attach: the store is reset along with the wallet
AttachReset(slot, wallet) ==
    /\ slot \in DOMAIN rts
    /\ rts' = [rts EXCEPT ![slot].wallet = wallet, ![slot].stock = DefaultStock]
    /\ ret' = [Ret("attach", slot, "Ok") EXCEPT !.wallet = wallet]
    /\ trip' = NoTrip
    /\ UNCHANGED <<disk, dirs, wfiles>>

\* Runtime::attach
Attach(slot, wallet) ==
    /\ slot \in DOMAIN rts
    /\ rts' = [rts EXCEPT ![slot].wallet = wallet]
    /\ ret' = [Ret("attach", slot, "Ok") EXCEPT !.wallet = wallet]
    /\ trip' = NoTrip
    /\ UNCHANGED <<disk, dirs, wfiles>>

\* Runtime::address_network
AddressNetwork(slot) ==
    /\ slot \in DOMAIN rts
    /\ ret' = [Ret("address_network", slot, "Ok") EXCEPT
                  !.label = AddressNetworkOf(rts[slot].network)]
    /\ trip' = NoTrip
    /\ UNCHANGED <<rts, disk, dirs, wfiles>>

\* variant of IncludeOutputOf: the chain tag of the output is not compared
IncludeOutputAnyChain(rt, output) ==
    \E i \in 1..Len(rt.wallet) : rt.wallet[i].outpoint = output.outpoint

\* OutpointFilter::include_output of a Runtime value
IncludeOutputOf(rt, output) == AnyCoin(rt.wallet, output)

\* a caller querying the ownership filter
IncludeOutput(slot, output) ==
    /\ slot \in DOMAIN rts
    /\ ret' = [Ret("include_output", slot, "Ok") EXCEPT
                  !.out = output, !.flag = IncludeOutputOf(rts[slot], output)]
    /\ trip' = NoTrip
    /\ UNCHANGED <<rts, disk, dirs, wfiles>>

\* the outcomes of Stock::import_contract / Stock::accept_transfer: decided
\* by the store, which either folds the item in and returns a status or
\* returns one of its errors and keeps its state
StockOutcomes == {"Ok", "Stash", "Inventory"}

\* the store after one of its routines ran on an item
StockFold(stock, item, outcome) ==
    IF outcome = "Ok" THEN stock \cup {item} ELSE stock

\* variant of ImportContract: a successful import is saved at once
ImportAndStore(slot, contract, outcome) ==
    /\ slot \in DOMAIN rts
    /\ rts' = [rts EXCEPT
                  ![slot].stock = StockFold(@, contract, outcome),
                  ![slot].mutated = @ \/ outcome = "Ok"]
    /\ ret' = IF outcome = "Ok"
              THEN [Ret("import_contract", slot, "Ok") EXCEPT !.status = "Valid"]
              ELSE Err(Ret("import_contract", slot, "Ok"), outcome)
    /\ trip' = NoTrip
    /\ disk' = IF outcome = "Ok"
               THEN Put(disk, rts[slot].stock_path, StockFile(rts'[slot].stock))
               ELSE disk
    /\ UNCHANGED <<dirs, wfiles>>

\* Runtime::import_contract
ImportContract(slot, contract, outcome) ==
    /\ slot \in DOMAIN rts
    /\ rts' = [rts EXCEPT
                  ![slot].stock = StockFold(@, contract, outcome),
                  ![slot].mutated = @ \/ outcome = "Ok"]
    /\ ret' = IF outcome = "Ok"
              THEN [Ret("import_contract", slot, "Ok") EXCEPT !.status = "Valid"]
              ELSE Err(Ret("import_contract", slot, "Ok"), outcome)
    /\ trip' = NoTrip
    /\ UNCHANGED <<disk, dirs, wfiles>>

\* variant of ValidateResult: the validation result itself is unwrapped
ValidateResultUnwrap(call, t, validated) ==
    IF validated.ok THEN [call EXCEPT !.xfer = t, !.status = validated.status]
    ELSE [call EXCEPT !.kind = "Panic"]

\* the result of validate_transfer: the transfer itself, or the validation
\* status of the failure (.expect("just validated") panics without one) as
\* RuntimeError::InvalidConsignment
ValidateResult(call, t, validated) ==
    IF validated.ok THEN [call EXCEPT !.xfer = t, !.status = validated.status]
    ELSE IF ~validated.some THEN [call EXCEPT !.kind = "Panic"]
    ELSE [Err(call, "InvalidConsignment") EXCEPT !.status = validated.status]

\* variant of ValidateTransfer: a valid transfer is also folded into the store
ValidateAndFold(slot, t, resolves) ==
    LET validated == TransferValidate(t, resolves, IsTestnet(rts[slot].network))
    IN  /\ slot \in DOMAIN rts
        /\ ret' = ValidateResult(
                      [Ret("validate_transfer", slot, "Ok") EXCEPT
                          !.given = t, !.flag = resolves],
                      t, validated)
        /\ rts' = IF validated.ok
                  THEN [rts EXCEPT ![slot].stock = @ \cup {TransferItem(t)}]
                  ELSE rts
        /\ trip' = NoTrip
        /\ UNCHANGED <<disk, dirs, wfiles>>

\* Runtime::validate_transfer
ValidateTransfer(slot, t, resolves) ==
    /\ slot \in DOMAIN rts
    /\ ret' = ValidateResult(
                  [Ret("validate_transfer", slot, "Ok") EXCEPT !.given = t, !.flag = resolves],
                  t, TransferValidate(t, resolves, IsTestnet(rts[slot].network)))
    /\ trip' = NoTrip
    /\ UNCHANGED <<rts, disk, dirs, wfiles>>

\* Runtime::accept_transfer
AcceptTransfer(slot, t, force, outcome) ==
    /\ slot \in DOMAIN rts
    /\ rts' = [rts EXCEPT
                  ![slot].stock = StockFold(@, TransferItem(t), outcome),
                  ![slot].mutated = @ \/ outcome = "Ok"]
    /\ ret' = IF outcome = "Ok"
              THEN [Ret("accept_transfer", slot, "Ok") EXCEPT !.status = "Valid"]
              ELSE Err(Ret("accept_transfer", slot, "Ok"), outcome)
    /\ trip' = NoTrip
    /\ UNCHANGED <<disk, dirs, wfiles>>

---------------------------------------------------------------------------
(* Specification *)

Next ==
    \/ \E slot \in Slots, data_dir \in BaseDirs, wallet_name \in WalletNames,
          network \in Networks, mkdir_ok \in BOOLEAN :
          Load(slot, data_dir, wallet_name, network, mkdir_ok)
    \/ \E slot \in Slots, data_dir \in BaseDirs, network \in Networks,
          wallet \in Wallets, mkdir_ok \in BOOLEAN :
          LoadAttach(slot, data_dir, network, wallet, mkdir_ok)
    \/ \E slot \in Slots, data_dir \in BaseDirs, wallet_name \in WalletNames,
          network \in Networks, init_wallet_ok \in BOOLEAN, persisted \in BOOLEAN,
          init_stock \in InitStockOutcomes, mkdir_ok \in BOOLEAN :
          LoadOrInit(slot, data_dir, wallet_name, network, init_wallet_ok, persisted,
                     init_stock, mkdir_ok)
    \/ \E slot \in Slots, data_dir \in BaseDirs, network \in Networks,
          wallet \in Wallets, init_stock \in InitStockOutcomes, mkdir_ok \in BOOLEAN :
          LoadAttachOrInit(slot, data_dir, network, wallet, init_stock, mkdir_ok)
    \/ \E slot \in Slots, store_ok \in BOOLEAN, damaged \in BOOLEAN :
          Drop(slot, store_ok, damaged)
    \/ \E slot \in Slots, store_ok \in BOOLEAN, damaged \in BOOLEAN :
          Unload(slot, store_ok, damaged)
    \/ \E slot \in Slots, wallet \in Wallets : Attach(slot, wallet)
    \/ \E slot \in Slots : AddressNetwork(slot)
    \/ \E slot \in Slots, output \in XchainOutpoints : IncludeOutput(slot, output)
    \/ \E slot \in Slots, contract \in Contracts, outcome \in StockOutcomes :
          ImportContract(slot, contract, outcome)
    \/ \E slot \in Slots, t \in Transfers, resolves \in BOOLEAN :
          ValidateTransfer(slot, t, resolves)
    \/ \E slot \in Slots, t \in Acceptable, force \in BOOLEAN, outcome \in StockOutcomes :
          AcceptTransfer(slot, t, force, outcome)

Spec == Init /\ [][Next]_vars

\* Two Runtime values owned side by side by one caller, both loaded for the
\* same data directory and network: nothing in load_attach_or_init or in
\* Drop looks at other Runtime values or locks stock_path.
RaceSlots == {"rt1", "rt2"}

RaceNetwork == "Testnet3"

RaceStockPath == StockPath(<<"x">>, RaceNetwork)

InitRace ==
    /\ rts = EmptyFn
    /\ disk \in {EmptyFn, [p \in {RaceStockPath} |-> StockFile(DefaultStock)]}
    /\ wfiles = EmptyFn
    /\ dirs = UNION {DirsOf(SubSeq(p, 1, Len(p) - 1)) : p \in DOMAIN disk}
    /\ ret = NoRet
    /\ trip = NoTrip

NextRace ==
    \/ \E slot \in RaceSlots, data_dir \in BaseDirs, mkdir_ok \in BOOLEAN :
          LoadAttach(slot, data_dir, RaceNetwork, WalletA, mkdir_ok)
    \/ \E slot \in RaceSlots, store_ok \in BOOLEAN, damaged \in BOOLEAN :
          Drop(slot, store_ok, damaged)
    \/ \E slot \in RaceSlots, store_ok \in BOOLEAN, damaged \in BOOLEAN :
          Unload(slot, store_ok, damaged)
    \/ \E slot \in RaceSlots, contract \in Contracts, outcome \in StockOutcomes :
          ImportContract(slot, contract, outcome)
    \/ \E slot \in RaceSlots, t \in Acceptable, force \in BOOLEAN, outcome \in StockOutcomes :
          AcceptTransfer(slot, t, force, outcome)

SpecRace == InitRace /\ [][NextRace]_vars

---------------------------------------------------------------------------
(* Claims *)

Disposals == {"drop", "unload"}

\* the file a successful flush of rt leaves at rt.stock_path
Flushed(rt) == Put(disk, rt.stock_path, StockFile(rt.stock))

\* C1 (as stated): unload() performs no store, so the on-disk store is the
\* same after unload() as before it.
C1_UnloadLeavesDisk == [][ret'.op = "unload" => disk' = disk]_vars

\* C1 (amended): unload() runs the same flush as disposal: when the write
\* succeeds the file at stock_path holds the in-memory store and no other
\* file changes; when it fails unload() panics.
C1_UnloadFlushes ==
    [][ret'.op = "unload" =>
          /\ ret'.kind \in {"Ok", "Panic"}
          /\ ret'.kind = "Ok" => disk' = Flushed(rts[ret'.slot])
          /\ ret'.slot \notin DOMAIN rts']_vars

\* a dirty Runtime was unloaded and its store, accepted transfer included, is on disk
C1_Witness ==
    /\ ret.op = "unload" /\ ret.kind = "Ok" /\ ret.label = "dirty"
    /\ \E p \in DOMAIN disk, t \in Acceptable : TransferItem(t) \in disk[p].stock

\* C2: load_or_init, then disposal, then load with the same triple succeeds
\* and yields the store held in memory just before the disposal.  (Stated
\* for the runs in which the wallet of the triple is in the wallet storage
\* when load is called.)
C2_RoundTrip ==
    (/\ trip.phase = 3
     /\ LoadOrInitWalletPath(trip.data_dir, trip.network, trip.wallet_name) \in DOMAIN wfiles)
    => /\ ret.kind = "Ok"
       /\ rts[ret.slot].stock = trip.stock

\* C3 (as stated): disposal of a Runtime on which no import or accept
\* succeeded since it was loaded, by whichever load variant, leaves the
\* file at stock_path as it was.
C3_CleanDisposalLeavesDisk ==
    [][(ret'.op = "drop" /\ ret'.label # "dirty") => disk' = disk]_vars

\* C3 (amended): disposal of a Runtime whose store was loaded from a
\* decodable stock.dat (no fallback) and on which no import or accept
\* succeeded since leaves every stock file with the content it had, when
\* the flush succeeds.
C3_LoadedDisposalLeavesDisk ==
    [][(ret'.op \in Disposals /\ ret'.label = "clean" /\ ret'.kind = "Ok")
          => disk' = disk]_vars

\* a Runtime loaded from a non-empty stock.dat was dropped untouched
C3_Witness ==
    /\ ret.op = "drop" /\ ret.kind = "Ok" /\ ret.label = "clean"
    /\ \E p \in DOMAIN disk : disk[p].ok /\ disk[p].stock # {}

\* the store load reads for a load call
LoadedFor(call) == StockLoad(disk, StockPath(call.data_dir, call.network))

\* whether load finds the wallet for a load call
WalletFor(call) ==
    LoadStandard(wfiles, LoadWalletPath(call.data_dir, call.network, call.wallet_name))

\* C4 (as stated): load fails whenever either load step fails: with the
\* wallet error when the wallet cannot be loaded, and with an error instead
\* of a Runtime when the store at stock_path cannot be loaded.
C4_LoadFailsOnEitherStep ==
    [][ret'.op = "load" =>
          /\ ~WalletFor(ret').ok => (ret'.kind = "Err" /\ ret'.err = "Bp")
          /\ (WalletFor(ret').ok /\ ~LoadedFor(ret').ok) =>
                (ret'.kind = "Err" /\ ret'.err \in {"Load", "Deserialize", "Io"})]_vars

\* C4 (amended): load fails with the wallet error when the wallet cannot be
\* loaded and with Io when the network directory cannot be created; when
\* the store at stock_path is absent or undecodable it does not fail but
\* returns a Runtime holding the default (empty) store.
C4_LoadFallsBackToDefault ==
    [][ret'.op = "load" =>
          /\ ~WalletFor(ret').ok => (ret'.kind = "Err" /\ ret'.err = "Bp")
          /\ WalletFor(ret').ok =>
                \/ ret'.kind = "Err" /\ ret'.err = "Io"
                      /\ NetworkDir(ret'.data_dir, ret'.network) \notin dirs
                \/ /\ ret'.kind = "Ok"
                   /\ ret'.slot \in DOMAIN rts'
                   /\ rts'[ret'.slot].stock =
                         IF LoadedFor(ret').ok THEN LoadedFor(ret').stock ELSE DefaultStock]_vars

\* load returned a Runtime with the default store over an undecodable stock.dat
C4_Witness ==
    /\ ret.op = "load" /\ ret.kind = "Ok" /\ ret.flag
    /\ ret.slot \in DOMAIN rts
    /\ rts[ret.slot].stock = DefaultStock
    /\ rts[ret.slot].stock_path \in DOMAIN disk
    /\ ~disk[rts[ret.slot].stock_path].ok

\* the outpoints of the UTXOs a wallet enumerates
UtxoOutpoints(wallet) == {wallet[i].outpoint : i \in 1..Len(wallet)}

\* C5: include_output(o) is true exactly when o is the Bitcoin outpoint of
\* a UTXO the Runtime's current wallet enumerates (also right after attach),
\* and the query changes neither the wallet nor the store.
C5_OwnershipFilter ==
    [][ret'.op = "include_output" =>
          /\ ret'.flag = (/\ ret'.out.chain = "Bitcoin"
                          /\ ret'.out.outpoint \in UtxoOutpoints(rts[ret'.slot].wallet))
          /\ UNCHANGED <<rts, disk, dirs, wfiles>>]_vars

\* the filter answered true for the second coin of a wallet
C5_Witness ==
    /\ ret.op = "include_output" /\ ret.flag
    /\ ret.slot \in DOMAIN rts
    /\ Len(rts[ret.slot].wallet) = 2
    /\ ret.out = XchainBitcoin(rts[ret.slot].wallet[2].outpoint)

\* C6: stock_path is base_dir / network.to_string() / "stock.dat" and that
\* directory exists; different networks under one base_dir give different
\* stock paths; no operation changes stock_path.
C6_StockPathLayout ==
    /\ [](/\ \A slot \in DOMAIN rts :
               /\ rts[slot].stock_path =
                     rts[slot].data_dir \o <<NetworkToString(rts[slot].network), "stock.dat">>
               /\ rts[slot].data_dir \o <<NetworkToString(rts[slot].network)>> \in dirs
          /\ \A data_dir \in BaseDirs, n1 \in Networks, n2 \in Networks :
               n1 # n2 => StockPath(data_dir, n1) # StockPath(data_dir, n2))
    /\ [][\A slot \in DOMAIN rts \cap DOMAIN rts' :
               rts'[slot].stock_path = rts[slot].stock_path]_vars

\* a Runtime lives on testnet in a directory the load call created
C6_Witness ==
    \E slot \in DOMAIN rts :
        /\ rts[slot].network = "Testnet3"
        /\ rts[slot].stock_path = <<"x", "testnet", "stock.dat">>
        /\ <<"x", "testnet">> \in dirs
        /\ <<"x", "testnet", "stock.dat">> \notin DOMAIN disk
        /\ <<"x", "testnet", "w1">> \notin DOMAIN wfiles

\* C7 (as stated): no load or Runtime operation panics; only the flush of a
\* normal disposal may.
C7_OnlyDropPanics == ret.kind = "Panic" => ret.op = "drop"

\* C7 (amended): every load variant and attach, import_contract,
\* validate_transfer, accept_transfer and address_network return a value;
\* the only panic is the one of the flush, which runs on disposal and
\* at the end of unload().
C7_OnlyFlushPanics ==
    /\ ret.kind = "Panic" => ret.op \in Disposals
    /\ ret.kind = "Err" =>
          ret.err \in {"Io", "Bp", "Deserialize", "Custom", "Stash", "Inventory",
                       "InvalidConsignment"}

\* unload() panicked in its flush
C7_Witness == ret.op = "unload" /\ ret.kind = "Panic"

\* C8: validate_transfer changes neither the store, the wallet nor the
\* disk; it returns the transfer it was given when validation succeeds and
\* InvalidConsignment with the validation status when it fails.
C8_ValidateIsPure ==
    [][ret'.op = "validate_transfer" =>
          LET validated == TransferValidate(ret'.given, ret'.flag,
                                            IsTestnet(rts[ret'.slot].network))
          IN  /\ UNCHANGED <<rts, disk, dirs, wfiles>>
              /\ validated.ok => (ret'.kind = "Ok" /\ ret'.xfer = ret'.given)
              /\ ~validated.ok =>
                    /\ ret'.kind = "Err" /\ ret'.err = "InvalidConsignment"
                    /\ ret'.status = validated.status]_vars

\* a transfer was rejected on a Runtime holding unsaved state
C8_Witness ==
    /\ ret.op = "validate_transfer" /\ ret.kind = "Err"
    /\ ret.err = "InvalidConsignment" /\ ret.status = "UnresolvedTransactions"
    /\ rts[ret.slot].mutated

\* C11: attach(wallet) puts the given wallet in place of the Runtime's wallet
\* and changes nothing else: the store, stock_path, the network, whether the
\* Runtime is clean, and the files are as before; it cannot fail.
C11_AttachOnlySwapsWallet ==
    [][ret'.op = "attach" =>
          /\ ret'.kind = "Ok"
          /\ DOMAIN rts' = DOMAIN rts
          /\ rts'[ret'.slot] = [rts[ret'.slot] EXCEPT !.wallet = ret'.wallet]
          /\ UNCHANGED <<disk, dirs, wfiles>>]_vars

\* another wallet was attached to a clean Runtime holding a non-empty store
C11_Witness ==
    /\ ret.op = "attach" /\ ret.wallet = WalletB
    /\ rts[ret.slot].wallet = WalletB
    /\ rts[ret.slot].stock # {}
    /\ ~rts[ret.slot].mutated /\ ~rts[ret.slot].fallback

LoadOps == {"load", "load_attach", "load_or_init", "load_attach_or_init"}

\* C12: in load_or_init and load_attach_or_init the store fallback is
\* invoked exactly when loading the store from stock_path fails; when it
\* returns a store the call returns a Runtime holding that store, and when
\* it returns an error the call fails with that error and builds no Runtime.
\* (A call that fails before its store step, with Io or the wallet error,
\* invokes nothing.)
C12_FallbackExactlyOnLoadFailure ==
    [][ret'.op \in {"load_or_init", "load_attach_or_init"} =>
          IF ret'.err \in {"Io", "Bp"}
          THEN ~ret'.flag /\ rts' = rts
          ELSE /\ ret'.flag = ~LoadedFor(ret').ok
               /\ ~ret'.flag =>
                     /\ ret'.kind = "Ok"
                     /\ rts'[ret'.slot].stock = LoadedFor(ret').stock
               /\ (ret'.flag /\ ret'.init.ok) =>
                     /\ ret'.kind = "Ok"
                     /\ rts'[ret'.slot].stock = ret'.init.stock
               /\ (ret'.flag /\ ~ret'.init.ok) =>
                     /\ ret'.kind = "Err" /\ ret'.err = ret'.init.err
                     /\ rts' = rts]_vars

\* the fallback's store is in a Runtime loaded over an undecodable stock.dat
C12_Witness ==
    /\ ret.op = "load_attach_or_init" /\ ret.kind = "Ok" /\ ret.flag
    /\ rts[ret.slot].stock = Contracts
    /\ rts[ret.slot].stock_path \in DOMAIN disk
    /\ ~disk[rts[ret.slot].stock_path].ok

\* the store Stock::load would read at the stock_path of a Runtime value
OnDisk(rt) == StockLoad(disk, rt.stock_path)

\* C13 (as stated): the in-memory store equals the on-disk store right
\* after any successful load variant, and differs from it only after a
\* successful import_contract or accept_transfer.
C13_CleanUnlessMutated ==
    \A slot \in DOMAIN rts :
        ~rts[slot].mutated =>
            (OnDisk(rts[slot]).ok /\ OnDisk(rts[slot]).stock = rts[slot].stock)

\* C13 (amended): a Runtime whose store was loaded from stock.dat holds the
\* on-disk store until an import_contract or accept_transfer succeeds; a
\* Runtime whose store came from the fallback holds a store that is not on
\* disk (stock.dat is absent or undecodable) from the start; a disposal
\* whose flush succeeds ends with the on-disk store equal to the store the
\* Runtime held.
C13_CleanAfterLoadFromDisk ==
    /\ [](\A slot \in DOMAIN rts :
             /\ (~rts[slot].mutated /\ ~rts[slot].fallback) =>
                    (OnDisk(rts[slot]).ok /\ OnDisk(rts[slot]).stock = rts[slot].stock)
             /\ (~rts[slot].mutated /\ rts[slot].fallback) => ~OnDisk(rts[slot]).ok)
    /\ [][(ret'.op \in Disposals /\ ret'.kind = "Ok") =>
             /\ StockLoad(disk', rts[ret'.slot].stock_path).ok
             /\ StockLoad(disk', rts[ret'.slot].stock_path).stock = rts[ret'.slot].stock]_vars

\* a dirty Runtime was dropped and the transfer it accepted is on disk
C13_Witness ==
    /\ ret.op = "drop" /\ ret.kind = "Ok" /\ ret.label = "dirty"
    /\ \E p \in DOMAIN disk, t \in Acceptable : TransferItem(t) \in disk[p].stock

\* the operations of a live Runtime
LiveOps ==
    {"import_contract", "accept_transfer", "validate_transfer", "attach",
     "include_output", "address_network"}

\* C14: import_contract, accept_transfer, validate_transfer, attach and
\* include_output never write the stock files; a stock file changes only
\* in the step that disposes of the Runtime.
C14_DiskWrittenOnlyOnDisposal ==
    [][/\ ret'.op \in LiveOps => disk' = disk
       /\ disk' # disk => ret'.op \in Disposals]_vars

\* a transfer was accepted into memory and is not in the file at stock_path
C14_Witness ==
    /\ ret.op = "accept_transfer" /\ ret.kind = "Ok"
    /\ \E t \in Acceptable :
          /\ TransferItem(t) \in rts[ret.slot].stock
          /\ OnDisk(rts[ret.slot]).ok
          /\ TransferItem(t) \notin OnDisk(rts[ret.slot]).stock

\* C15: two Runtimes loaded at the same stock_path are not serialized:
\* a load succeeds from the file whether or not another Runtime is live,
\* each successful disposal writes exactly its own store over the file,
\* and what the file held from the other Runtime is gone after the last
\* disposal.
C15_LastDisposedWins ==
    /\ [][(ret'.op = "load_attach" /\ ret'.err # "Io") =>
             /\ ret'.kind = "Ok"
             /\ rts'[ret'.slot].stock_path = RaceStockPath
             /\ rts'[ret'.slot].stock =
                   IF LoadedFor(ret').ok THEN LoadedFor(ret').stock ELSE DefaultStock
             /\ \A other \in DOMAIN rts : rts'[other] = rts[other]]_vars
    /\ [][(ret'.op \in Disposals /\ ret'.kind = "Ok") =>
             /\ disk' = Flushed(rts[ret'.slot])
             /\ ret'.lost = Overwritten(rts[ret'.slot])]_vars
    /\ [](\A slot \in DOMAIN rts : rts[slot].stock_path = RaceStockPath)
    /\ []((ret.op \in Disposals /\ ret.kind = "Ok") =>
             /\ StockLoad(disk, RaceStockPath).ok
             /\ StockLoad(disk, RaceStockPath).stock \cap ret.lost = {})

\* both Runtimes are disposed of, the last one without failure, and an item
\* that the other one had flushed is no longer in the file
C15_Witness ==
    /\ rts = EmptyFn
    /\ ret.op \in Disposals /\ ret.kind = "Ok" /\ ret.label = "dirty"
    /\ \E t \in Acceptable : TransferItem(t) \in StockLoad(disk, RaceStockPath).stock
    /\ \E c \in Contracts : c \in ret.lost /\ c \notin StockLoad(disk, RaceStockPath).stock

\* C16: load and load_or_init derive the same wallet path from the same
\* (data_dir, network, wallet_name): load finds a wallet exactly when one is
\* stored where load_or_init keeps the wallet of that triple.
C16_SameWalletPath ==
    [][ret'.op = "load" =>
          (ret'.err = "Bp" <=>
              LoadOrInitWalletPath(ret'.data_dir, ret'.network, ret'.wallet_name)
                  \notin DOMAIN wfiles)]_vars

\* C17: a disposal, by drop or by unload, never ends with a RuntimeError:
\* it ends normally only when the flush wrote the store, and otherwise it
\* panics; the Runtime value is gone either way.
C17_FlushFailurePanics ==
    [][ret'.op \in Disposals =>
          /\ ret'.kind \in {"Ok", "Panic"}
          /\ ret'.err = ""
          /\ ret'.kind = "Ok" => disk' = Flushed(rts[ret'.slot])
          /\ disk' # Flushed(rts[ret'.slot]) => ret'.kind = "Panic"
          /\ ret'.slot \notin DOMAIN rts']_vars

\* a drop whose flush failed on a Runtime with unsaved changes, leaving an
\* undecodable file
C17_Witness ==
    /\ ret.op = "drop" /\ ret.kind = "Panic" /\ ret.label = "dirty"
    /\ \E p \in DOMAIN disk : disk[p] = CorruptFile

\* C18: a load variant that returns an error constructs no Runtime and
\* writes nothing: the stock files, the undecodable ones included, are the
\* same after the call as before it.
C18_FailedLoadWritesNothing ==
    [][(ret'.op \in LoadOps /\ ret'.kind = "Err") =>
          /\ disk' = disk
          /\ rts' = rts
          /\ ret'.err \in {"Bp", "Io", "Deserialize", "Custom"}]_vars

\* the store fallback failed and the undecodable file is still at stock_path
C18_Witness ==
    /\ ret.op \in {"load_or_init", "load_attach_or_init"}
    /\ ret.kind = "Err" /\ ret.flag /\ ~ret.init.ok
    /\ StockPath(ret.data_dir, ret.network) \in DOMAIN disk
    /\ disk[StockPath(ret.data_dir, ret.network)] = CorruptFile
    /\ rts = EmptyFn

====
